---------------------------- MODULE Spec2Model ----------------------------
(***************************************************************************)
(* A model of mass.py: the BalanceBoard session (construction, receive     *)
(* loop, mass calculation, disconnect), the discovery thread that fills    *)
(* the global registry `boards`, the atexit cleanup and the websocket      *)
(* broadcast loop mass_server.                                             *)
(*                                                                         *)
(* Python indexes from 0 and TLA+ sequences from 1: data[k] of the source  *)
(* is At(data, k) here.  Floating-point masses are modelled as exact       *)
(* rationals <<numerator, denominator>> in lowest terms.                   *)
(***************************************************************************)
EXTENDS Integers, Sequences, FiniteSets, TLC

(***************************************************************************)
(* Protocol constants.  mass.py takes them from constants.py               *)
(* (`from constants import *`), which is not among the source files; the   *)
(* values are those of the device family's protocol.                       *)
(***************************************************************************)
STATUS == 32
READ_RTN == 33
REPORT_CB == 48
REPORT_CB8E == 50
CALIBRATION_LENGTH == 24
CALIBRATION_ADDR == <<4, 164, 0, 36>>
BOARD_NAME == "Nintendo RVL-WBC-01"

(***************************************************************************)
(* Bounds of the model.                                                    *)
(***************************************************************************)
NumAddr == 2
MaxSent == 3

Addresses == 1..NumAddr
\* A falsy address (the empty string): the `and dev[0]` test of discovery.
NoAddr == 0

(***************************************************************************)
(* Bytes and struct.unpack                                                 *)
(***************************************************************************)
At(data, k) == data[k + 1]

\* data[a:b]: a Python slice never raises, it is cut at the end of data.
Slice(data, a, b) ==
  LET hi == IF b < Len(data) THEN b ELSE Len(data)
  IN  IF hi <= a THEN << >> ELSE [k \in 1..(hi - a) |-> data[a + k]]

\* struct.unpack(">H", two bytes)[0]
UnpackH(bs) == bs[1] * 256 + bs[2]

\* struct.unpack(">HHHH", eight bytes)
UnpackHHHH(bs) == [k \in 1..4 |-> bs[2 * k - 1] * 256 + bs[2 * k]]

PackH(v) == << v \div 256, v % 256 >>

(***************************************************************************)
(* Exact rationals for the float arithmetic of calculate_mass.             *)
(***************************************************************************)
Abs(x) == IF x < 0 THEN -x ELSE x

RECURSIVE Gcd(_, _)
Gcd(a, b) == IF b = 0 THEN a ELSE Gcd(b, a % b)

Rat(n, d) ==
  LET s == IF d < 0 THEN -1 ELSE 1
      g == Gcd(Abs(n), Abs(d))
  IN  << (s * n) \div g, (s * d) \div g >>

\* The sum over the least common denominator, which keeps the products small.
RatAdd(x, y) ==
  LET g == Gcd(x[2], y[2])
  IN  Rat(x[1] * (y[2] \div g) + y[1] * (x[2] \div g), x[2] * (y[2] \div g))

\* x <= y
RatLe(x, y) ==
  LET g == Gcd(x[2], y[2])
  IN  x[1] * (y[2] \div g) <= y[1] * (x[2] \div g)

RatZero == << 0, 1 >>

RECURSIVE RatSum(_)
RatSum(s) == IF s = << >> THEN RatZero ELSE RatAdd(RatSum(Tail(s)), Head(s))


(***************************************************************************)
(* Frames the device can deliver on the report channel (recv(25)).         *)
(***************************************************************************)
FrameHeader(type) == << 161, type, 0, 0 >>

StatusFrame == FrameHeader(STATUS) \o << 0, 0, 0, 200 >>
ButtonFrame == FrameHeader(REPORT_CB)
\* 0x22, the acknowledgement report: none of the four types run() knows.
UnknownFrame == FrameHeader(34) \o << 0, 0 >>
\* What recv returns on a closed channel.
EmptyFrame == << >>

\* A read reply: size nibble (n - 1) in the high half of byte 4, the 16-bit
\* address in bytes 5..6 and always 16 data bytes, of which n are meant.
ReadFrame(addr, n, payload) ==
  FrameHeader(READ_RTN) \o << (n - 1) * 16 >> \o PackH(addr) \o payload

ReportFrame(s) ==
  FrameHeader(REPORT_CB8E) \o PackH(s[1]) \o PackH(s[2]) \o PackH(s[3]) \o PackH(s[4])

Rep4(v) == PackH(v) \o PackH(v) \o PackH(v) \o PackH(v)

\* Calibration payloads: zero = 100 and half = 200 on every axis; full = 300,
\* full = 400, or the degenerate full = half = 200.
PayZeroHalf == Rep4(100) \o Rep4(200)
PayZeroHalfAlt == Rep4(50) \o Rep4(200)
PayFull == Rep4(300) \o Rep4(0)
PayFullAlt == Rep4(400) \o Rep4(0)
PayFullBad == Rep4(200) \o Rep4(0)

start_LSB == UnpackH(SubSeq(CALIBRATION_ADDR, 3, 4))

(***************************************************************************)
(* The body of run() for one frame, as functions of the session's fields.  *)
(* Each returns the new fields and whether an exception ended the thread.  *)
(***************************************************************************)
Min2(a, b) == IF a < b THEN a ELSE b

\* ApplyChunk with the chunk written behind the bytes already received
\* instead of at the offset its address gives.
ApplyChunkAppend(cd, cm, data) ==
  IF Len(data) < 5 \/ Len(Slice(data, 5, 7)) < 2
  THEN [data |-> cd, mask |-> cm, crashed |-> TRUE]
  ELSE
    LET length == (At(data, 4) \div 16) + 1
        addr == UnpackH(Slice(data, 5, 7))
    IN  IF start_LSB <= addr /\ addr < start_LSB + CALIBRATION_LENGTH
        THEN
          LET offset == Cardinality({ k \in 1..CALIBRATION_LENGTH : cm[k] = 0 })
              avail == Len(data) - 7
              room == CALIBRATION_LENGTH - offset
              done == Min2(length, Min2(avail, room))
              hit(k) == offset < k /\ k <= offset + done
          IN  [data |-> [k \in 1..CALIBRATION_LENGTH |->
                           IF hit(k) THEN At(data, 7 + (k - 1 - offset)) ELSE cd[k]],
               mask |-> [k \in 1..CALIBRATION_LENGTH |->
                           IF hit(k) THEN 0 ELSE cm[k]],
               crashed |-> done < length]
        ELSE [data |-> cd, mask |-> cm, crashed |-> FALSE]

\* ApplyChunk marking as missing again every byte the chunk does not carry.
ApplyChunkResetsMask(cd, cm, data) ==
  IF Len(data) < 5 \/ Len(Slice(data, 5, 7)) < 2
  THEN [data |-> cd, mask |-> cm, crashed |-> TRUE]
  ELSE
    LET length == (At(data, 4) \div 16) + 1
        addr == UnpackH(Slice(data, 5, 7))
    IN  IF start_LSB <= addr /\ addr < start_LSB + CALIBRATION_LENGTH
        THEN
          LET offset == addr - start_LSB
              avail == Len(data) - 7
              room == CALIBRATION_LENGTH - offset
              done == Min2(length, Min2(avail, room))
              hit(k) == offset < k /\ k <= offset + done
          IN  [data |-> [k \in 1..CALIBRATION_LENGTH |->
                           IF hit(k) THEN At(data, 7 + (k - 1 - offset)) ELSE cd[k]],
               mask |-> [k \in 1..CALIBRATION_LENGTH |->
                           IF hit(k) THEN 0 ELSE 1],
               crashed |-> done < length]
        ELSE [data |-> cd, mask |-> cm, crashed |-> FALSE]

\* run(), READ_RTN branch (lines 75-84).  data[4] raises IndexError on a
\* frame shorter than 5 bytes, struct.unpack raises on a slice shorter than
\* 2; inside the loop data[7+i] or calibration_data[offset+i] raises
\* IndexError after the earlier iterations have already written.
ApplyChunk(cd, cm, data) ==
  IF Len(data) < 5 \/ Len(Slice(data, 5, 7)) < 2
  THEN [data |-> cd, mask |-> cm, crashed |-> TRUE]
  ELSE
    LET length == (At(data, 4) \div 16) + 1
        addr == UnpackH(Slice(data, 5, 7))
    IN  IF start_LSB <= addr /\ addr < start_LSB + CALIBRATION_LENGTH
        THEN
          LET offset == addr - start_LSB
              avail == Len(data) - 7
              room == CALIBRATION_LENGTH - offset
              done == Min2(length, Min2(avail, room))
              hit(k) == offset < k /\ k <= offset + done
          IN  [data |-> [k \in 1..CALIBRATION_LENGTH |->
                           IF hit(k) THEN At(data, 7 + (k - 1 - offset)) ELSE cd[k]],
               mask |-> [k \in 1..CALIBRATION_LENGTH |->
                           IF hit(k) THEN 0 ELSE cm[k]],
               crashed |-> done < length]
        ELSE [data |-> cd, mask |-> cm, crashed |-> FALSE]

\* any(self.calibration_mask)
AnyMask(cm) == \E k \in 1..Len(cm) : cm[k] # 0

\* The outcome of an axis whose division raises ZeroDivisionError.
ZeroDivisionError == << >>

\* MassAxis with the `+ 17` of line 102 left out: the upper branch starts
\* again at 0.
MassAxisNoOffset(point, zero, half, full) ==
  IF point < zero THEN RatZero
  ELSE IF zero <= point /\ point < half
       THEN Rat((point - zero) * 17, half - zero)
       ELSE IF full - half = 0 THEN ZeroDivisionError
            ELSE Rat((point - half) * 17, full - half)

\* One axis of calculate_mass (lines 94-102): the mass, or ZeroDivisionError.
\* 17 / (half - zero) is evaluated only when zero <= point < half, so only
\* full = half can divide by zero.
MassAxis(point, zero, half, full) ==
  IF point < zero THEN RatZero
  ELSE IF zero <= point /\ point < half
       THEN Rat((point - zero) * 17, half - zero)
       ELSE IF full - half = 0 THEN ZeroDivisionError
            ELSE RatAdd(Rat((point - half) * 17, full - half), << 17, 1 >>)

CalPoint(cd, lo) == UnpackH(<< cd[lo + 1], cd[lo + 2] >>)

AxisOf(sd, cd, i) ==
  MassAxis(sd[i + 1], CalPoint(cd, i * 2), CalPoint(cd, i * 2 + 8), CalPoint(cd, i * 2 + 16))

\* calculate_mass (lines 92-103): mass[i] is written axis by axis, total_mass
\* after the loop; an exception on axis i leaves the earlier axes written
\* and total_mass as it was.
calculate_mass(sd, cd, m, tm) ==
  LET bad == { i \in 0..3 : AxisOf(sd, cd, i) = ZeroDivisionError }
      first == IF bad = {} THEN 4 ELSE CHOOSE i \in bad : \A j \in bad : i <= j
      nm == [k \in 1..4 |-> IF k - 1 < first THEN AxisOf(sd, cd, k - 1) ELSE m[k]]
  IN  [mass |-> nm,
       total_mass |-> IF bad = {} THEN RatSum(nm) ELSE tm,
       crashed |-> bad # {}]

\* The fields of a session that run() works on.
Fields(cd, cm, sd, m, tm) ==
  [calibration_data |-> cd, calibration_mask |-> cm, sensor_data |-> sd,
   mass |-> m, total_mass |-> tm]

\* What handling one frame does: the new fields, whether an exception ended
\* the thread, and whether a set_report_mode command was issued.
Outcome(f, crashed, reply) == [fields |-> f, crashed |-> crashed, reply |-> reply]

\* HandleReport without the test of line 87: the mass is computed on every
\* report.
HandleReportNoGate(f, data) ==
  IF Len(Slice(data, 4, 12)) < 8
  THEN Outcome(f, TRUE, FALSE)
  ELSE
    LET sd == UnpackHHHH(Slice(data, 4, 12))
        r == calculate_mass(sd, f.calibration_data, f.mass, f.total_mass)
    IN  Outcome(Fields(f.calibration_data, f.calibration_mask, sd,
                       r.mass, r.total_mass), r.crashed, FALSE)

\* run(), REPORT_CB8E branch (lines 85-88).
HandleReport(f, data) ==
  IF Len(Slice(data, 4, 12)) < 8
  THEN Outcome(f, TRUE, FALSE)
  ELSE
    LET sd == UnpackHHHH(Slice(data, 4, 12))
    IN  IF ~AnyMask(f.calibration_mask)
        THEN LET r == calculate_mass(sd, f.calibration_data, f.mass, f.total_mass)
             IN  Outcome(Fields(f.calibration_data, f.calibration_mask, sd,
                                r.mass, r.total_mass), r.crashed, FALSE)
        ELSE Outcome([f EXCEPT !.sensor_data = sd], FALSE, FALSE)

\* run(), READ_RTN branch.
HandleReadRtn(f, data) ==
  LET r == ApplyChunk(f.calibration_data, f.calibration_mask, data)
  IN  Outcome([f EXCEPT !.calibration_data = r.data, !.calibration_mask = r.mask],
              r.crashed, FALSE)

\* HandleUnknown raising on a type it does not know.
HandleUnknownRaises(f, data) == Outcome(f, TRUE, FALSE)

\* run(), the else branch (lines 89-90): the frame is only printed.
HandleUnknown(f, data) == Outcome(f, FALSE, FALSE)

\* RunBody without the set_report_mode of line 72: a status frame is only
\* printed.
RunBodyNoReply(f, data) ==
  IF Len(data) < 2 THEN Outcome(f, TRUE, FALSE)
  ELSE
    LET packet_type == At(data, 1)
    IN  IF packet_type = STATUS
        THEN Outcome(f, Len(data) < 5, FALSE)
        ELSE IF packet_type = REPORT_CB
        THEN Outcome(f, Len(data) < 4, FALSE)
        ELSE IF packet_type = READ_RTN
        THEN HandleReadRtn(f, data)
        ELSE IF packet_type = REPORT_CB8E
        THEN HandleReport(f, data)
        ELSE HandleUnknown(f, data)

\* The body of the while loop of run() after recv has returned data
\* (lines 67-90).
RunBody(f, data) ==
  IF Len(data) < 2 THEN Outcome(f, TRUE, FALSE)
  ELSE
    LET packet_type == At(data, 1)
    IN  IF packet_type = STATUS
        THEN IF Len(data) < 5 THEN Outcome(f, TRUE, FALSE) ELSE Outcome(f, FALSE, TRUE)
        ELSE IF packet_type = REPORT_CB
        THEN Outcome(f, Len(data) < 4, FALSE)
        ELSE IF packet_type = READ_RTN
        THEN HandleReadRtn(f, data)
        ELSE IF packet_type = REPORT_CB8E
        THEN HandleReport(f, data)
        ELSE HandleUnknown(f, data)

(***************************************************************************)
(* Command frames (send, read, set_report_mode), kept symbolically.        *)
(***************************************************************************)
ReadCmd(location, length) == << "READ", location, PackH(length) >>
SetReportModeCmd(continuous, mode) ==
  << "SET_REPORT_MODE", IF continuous THEN 4 ELSE 0, mode >>

(***************************************************************************)
(* keys.sort(): insertion sort into ascending order.                       *)
(***************************************************************************)
RECURSIVE InsertSorted(_, _)
InsertSorted(x, s) ==
  IF s = << >> THEN << x >>
  ELSE IF x <= Head(s) THEN << x >> \o s
       ELSE << Head(s) >> \o InsertSorted(x, Tail(s))

\* keys.sort() left out.
SortKeysOmitted(s) == s

RECURSIVE SortKeys(_)
SortKeys(s) == IF s = << >> THEN << >> ELSE InsertSorted(Head(s), SortKeys(Tail(s)))

(***************************************************************************)
(* State.  A session object is kept per address, field by field; the       *)
(* registry `boards` is the list of its keys in insertion order (a Python  *)
(* dict iterates in insertion order).                                      *)
(***************************************************************************)
VARIABLES
  boards,            \* keys of the global dict, in insertion order
  status,            \* self.status; "NoObject" before __init__ has run
  calibration_data, calibration_mask, sensor_data, mass, total_mass,
  recv_thread,       \* "none", "created", "recv", "handle", "finished", "crashed"
  data,              \* run(): the frame the last recv returned
  receivesocket, controlsocket,   \* "none", "created", "connected", "closed"
  sent,              \* the commands written to the control socket, in order
  connections,       \* how many L2CAP connections the device has been sent
  disc_pc, devices,  \* discovery(): position, and the rest of the poll's list
  ms_pc, ms_sum, ms_it, ms_size, listed, keys, board_masses, message,   \* mass_server
  cl_pc, cl_it, cl_size                                        \* cleanup

session_vars ==
  << status, calibration_data, calibration_mask, sensor_data, mass, total_mass,
     recv_thread, data, receivesocket, controlsocket, sent, connections >>
calib_vars == << calibration_data, calibration_mask, sensor_data, mass, total_mass >>
disc_vars == << disc_pc, devices >>
ms_vars == << ms_pc, ms_sum, ms_it, ms_size, listed, keys, board_masses, message >>
cl_vars == << cl_pc, cl_it, cl_size >>
vars == << boards, session_vars, disc_vars, ms_vars, cl_vars >>

FieldsOf(a) ==
  Fields(calibration_data[a], calibration_mask[a], sensor_data[a], mass[a], total_mass[a])

InitCalibrationData == [k \in 1..CALIBRATION_LENGTH |-> 0]
InitCalibrationMask == [k \in 1..CALIBRATION_LENGTH |-> 1]
InitSensorData == [k \in 1..8 |-> 0]
InitMass == [k \in 1..4 |-> RatZero]

\* The module-level state before __main__ starts its threads: no session
\* object exists, boards = {}.
Init ==
  /\ boards = << >>
  /\ status = [a \in Addresses |-> "NoObject"]
  /\ calibration_data = [a \in Addresses |-> InitCalibrationData]
  /\ calibration_mask = [a \in Addresses |-> InitCalibrationMask]
  /\ sensor_data = [a \in Addresses |-> InitSensorData]
  /\ mass = [a \in Addresses |-> InitMass]
  /\ total_mass = [a \in Addresses |-> RatZero]
  /\ recv_thread = [a \in Addresses |-> "none"]
  /\ data = [a \in Addresses |-> << >>]
  /\ receivesocket = [a \in Addresses |-> "none"]
  /\ controlsocket = [a \in Addresses |-> "none"]
  /\ sent = [a \in Addresses |-> << >>]
  /\ connections = [a \in Addresses |-> 0]
  /\ disc_pc = "poll"
  /\ devices = << >>
  /\ ms_pc = "sleep"
  /\ ms_sum = RatZero
  /\ ms_it = 0
  /\ ms_size = 0
  /\ listed = << >>
  /\ keys = << >>
  /\ board_masses = << >>
  /\ message = << >>
  /\ cl_pc = "idle"
  /\ cl_it = 0
  /\ cl_size = 0

InBoards(a) == \E k \in 1..Len(boards) : boards[k] = a

(***************************************************************************)
(* discovery() and BalanceBoard.__init__                                   *)
(***************************************************************************)
\* What one bluetooth.discover_devices call can return: (address, name)
\* pairs, boards and other devices, an address possibly twice.
Devs ==
  { << a, BOARD_NAME >> : a \in Addresses }
    \cup { << 1, "Other" >>, << NoAddr, BOARD_NAME >> }
PollResults ==
  { << d >> : d \in Devs } \cup { << << a, BOARD_NAME >>, << a, BOARD_NAME >> >> : a \in Addresses }
\* The polls when a single board, of address 1, is in range.
PollOne == { << << 1, BOARD_NAME >> >>, << << 1, "Other" >> >> }

\* The device the for loop of discovery is at.
dev == Head(devices)

\* IsNewBoard without the look-up in boards.keys().
IsNewBoardNoLookup(d, reg) == d[2] = BOARD_NAME /\ d[1] # NoAddr

\* Line 122: the test that decides whether a session is constructed.
IsNewBoard(d, reg) ==
  d[2] = BOARD_NAME /\ ~(\E k \in 1..Len(reg) : reg[k] = d[1]) /\ d[1] # NoAddr

\* Lines 121-122: the for loop passes over the devices that fail the test;
\* what is left starts with the device a session is constructed for.
RECURSIVE SkipKnown(_, _)
SkipKnown(ds, reg) ==
  IF ds = << >> \/ IsNewBoard(Head(ds), reg) THEN ds ELSE SkipKnown(Tail(ds), reg)

\* The for loop goes on over ds, the registry being reg: to the constructor
\* (lines 123-124), or to the next poll when the list is used up.
Advance(ds, reg) ==
  /\ devices' = SkipKnown(ds, reg)
  /\ disc_pc' = IF SkipKnown(ds, reg) = << >> THEN "poll" ELSE "init"

\* An exception nobody catches ends the discovery thread.
DiscoveryDies == disc_pc' = "crashed" /\ UNCHANGED devices

\* Lines 120-122; polls is what discover_devices can return.
Discover(polls) ==
  /\ disc_pc = "poll"
  /\ \E ds \in polls : Advance(ds, boards)
  /\ UNCHANGED << boards, session_vars, ms_vars, cl_vars >>

\* __init__, lines 19-31: the fields, the thread object, the two sockets.
\* bluetooth.BluetoothSocket may raise ValueError.
InitObject ==
  /\ disc_pc = "init"
  /\ LET a == dev[1] IN
       /\ status' = [status EXCEPT ![a] = "Disconnected"]
       /\ calibration_data' = [calibration_data EXCEPT ![a] = InitCalibrationData]
       /\ calibration_mask' = [calibration_mask EXCEPT ![a] = InitCalibrationMask]
       /\ sensor_data' = [sensor_data EXCEPT ![a] = InitSensorData]
       /\ mass' = [mass EXCEPT ![a] = InitMass]
       /\ total_mass' = [total_mass EXCEPT ![a] = RatZero]
       /\ recv_thread' = [recv_thread EXCEPT ![a] = "created"]
       /\ \E ok \in BOOLEAN :
            IF ok
            THEN /\ receivesocket' = [receivesocket EXCEPT ![a] = "created"]
                 /\ controlsocket' = [controlsocket EXCEPT ![a] = "created"]
                 /\ disc_pc' = "connect_recv"
                 /\ UNCHANGED devices
            ELSE /\ DiscoveryDies
                 /\ UNCHANGED << receivesocket, controlsocket >>
  /\ UNCHANGED << boards, data, sent, connections, ms_vars, cl_vars >>

\* Line 32.
ConnectRecv ==
  /\ disc_pc = "connect_recv"
  /\ LET a == dev[1] IN
       \E ok \in BOOLEAN :
         IF ok
         THEN /\ receivesocket' = [receivesocket EXCEPT ![a] = "connected"]
              /\ connections' = [connections EXCEPT ![a] = @ + 1]
              /\ disc_pc' = "connect_ctrl"
              /\ UNCHANGED devices
         ELSE DiscoveryDies /\ UNCHANGED << receivesocket, connections >>
  /\ UNCHANGED << boards, status, calib_vars, recv_thread, data, controlsocket, sent,
                  ms_vars, cl_vars >>

\* ConnectCtrl with the failure of the connect swallowed: the constructor
\* goes on with a control socket that is not connected.
ConnectCtrlIgnoresFailure ==
  /\ disc_pc = "connect_ctrl"
  /\ LET a == dev[1] IN
       \E ok \in BOOLEAN :
         /\ controlsocket' = IF ok THEN [controlsocket EXCEPT ![a] = "connected"]
                             ELSE controlsocket
         /\ disc_pc' = "set_status"
         /\ UNCHANGED devices
  /\ UNCHANGED << boards, status, calib_vars, recv_thread, data, receivesocket, sent,
                  connections, ms_vars, cl_vars >>

\* Line 33.
ConnectCtrl ==
  /\ disc_pc = "connect_ctrl"
  /\ LET a == dev[1] IN
       \E ok \in BOOLEAN :
         IF ok
         THEN /\ controlsocket' = [controlsocket EXCEPT ![a] = "connected"]
              /\ disc_pc' = "set_status"
              /\ UNCHANGED devices
         ELSE DiscoveryDies /\ UNCHANGED controlsocket
  /\ UNCHANGED << boards, status, calib_vars, recv_thread, data, receivesocket, sent,
                  connections, ms_vars, cl_vars >>

\* Lines 34-36 (socket objects are truthy).
SetConnected ==
  /\ disc_pc = "set_status"
  /\ status' = [status EXCEPT ![dev[1]] = "Connected"]
  /\ disc_pc' = "start"
  /\ UNCHANGED << boards, calib_vars, recv_thread, data, receivesocket, controlsocket,
                  sent, connections, devices, ms_vars, cl_vars >>

\* The test of `while self.status == "Connected"`: the thread goes on to
\* block in recv, or run() returns.
LoopTest(s) == IF s = "Connected" THEN "recv" ELSE "finished"

\* Line 37.
StartThread ==
  /\ disc_pc = "start"
  /\ recv_thread' = [recv_thread EXCEPT ![dev[1]] = LoopTest(status[dev[1]])]
  /\ disc_pc' = "read"
  /\ UNCHANGED << boards, status, calib_vars, data, receivesocket, controlsocket,
                  sent, connections, devices, ms_vars, cl_vars >>

\* send (lines 41-43) from the constructor: the command goes out, or the
\* socket raises and the exception leaves __init__ and discovery.
InitSend(cmd, next) ==
  /\ \E ok \in BOOLEAN :
       IF ok
       THEN /\ sent' = [sent EXCEPT ![dev[1]] = Append(@, cmd)]
            /\ disc_pc' = next
            /\ UNCHANGED devices
       ELSE DiscoveryDies /\ UNCHANGED sent
  /\ UNCHANGED << boards, status, calib_vars, recv_thread, data, receivesocket,
                  controlsocket, connections, ms_vars, cl_vars >>

\* Line 38.
SendRead ==
  /\ disc_pc = "read"
  /\ InitSend(ReadCmd(CALIBRATION_ADDR, CALIBRATION_LENGTH), "report_mode")

\* Line 39.
SendReportMode ==
  /\ disc_pc = "report_mode"
  /\ InitSend(SetReportModeCmd(TRUE, REPORT_CB8E), "insert")

\* Line 125: boards[dev[0]] = new.
Insert ==
  /\ disc_pc = "insert"
  /\ boards' = IF InBoards(dev[1]) THEN boards ELSE Append(boards, dev[1])
  /\ Advance(Tail(devices), boards')
  /\ UNCHANGED << session_vars, ms_vars, cl_vars >>

(***************************************************************************)
(* BalanceBoard.run: the receive thread of the session of address a.       *)
(***************************************************************************)
\* The frames a device delivers: the calibration block in the two chunks
\* the device sends it in, a report, frames that change nothing, and the
\* empty frame of a closed channel.
Frames ==
  { ButtonFrame, UnknownFrame, EmptyFrame,
    ReadFrame(start_LSB, 16, PayZeroHalf),
    ReadFrame(start_LSB + 16, 8, PayFull),
    ReportFrame(<< 150, 150, 150, 150 >>) }

\* A wider choice of frames: chunks that overwrite, overlap, run past the
\* block or lie outside it, a degenerate calibration (full = half), reports
\* below, between and above the calibration points, truncated frames.
SessionFrames ==
  Frames \cup
  { StatusFrame,
    ReadFrame(start_LSB, 16, PayZeroHalfAlt),
    ReadFrame(start_LSB + 16, 8, PayFullAlt),
    ReadFrame(start_LSB + 16, 8, PayFullBad),
    ReadFrame(start_LSB + 8, 16, Rep4(200) \o Rep4(300)),
    ReadFrame(start_LSB + 16, 16, PayFullAlt \o Rep4(7)),
    ReadFrame(start_LSB - 1, 2, PayZeroHalfAlt),
    ReadFrame(start_LSB + CALIBRATION_LENGTH, 8, PayFullAlt),
    ReportFrame(<< 250, 250, 50, 150 >>),
    ReportFrame(<< 200, 100, 300, 65535 >>),
    ReportFrame(<< 150, 250, 50, 150 >>),
    SubSeq(StatusFrame, 1, 4),
    << 161 >>,
    SubSeq(ReportFrame(<< 150, 150, 150, 150 >>), 1, 10) }

IsStatusFrame(d) == Len(d) >= 2 /\ At(d, 1) = STATUS

\* HandleFrame with the five fields shared by all sessions (class attributes
\* instead of the instance attributes lines 21-25 make): handling a frame
\* writes them for every address.
HandleFrameShared(a, d) ==
  \E r \in { RunBody(FieldsOf(a), d) } :
    /\ calibration_data' = [b \in Addresses |-> r.fields.calibration_data]
    /\ calibration_mask' = [b \in Addresses |-> r.fields.calibration_mask]
    /\ sensor_data' = [b \in Addresses |-> r.fields.sensor_data]
    /\ mass' = [b \in Addresses |-> r.fields.mass]
    /\ total_mass' = [b \in Addresses |-> r.fields.total_mass]
    /\ \E ok \in BOOLEAN :
         /\ ~r.reply => ok
         /\ sent' = IF r.reply /\ ok
                    THEN [sent EXCEPT ![a] = Append(@, SetReportModeCmd(TRUE, REPORT_CB8E))]
                    ELSE sent
         /\ recv_thread' = [recv_thread EXCEPT ![a] =
                              IF r.crashed \/ ~ok THEN "crashed" ELSE LoopTest(status[a])]

\* Lines 67-90 for the frame d, and the next test of the while condition.
\* An exception in the body, or in send, ends the thread; status is not
\* touched.
HandleFrame(a, d) ==
  \E r \in { RunBody(FieldsOf(a), d) } :
    /\ calibration_data' = [calibration_data EXCEPT ![a] = r.fields.calibration_data]
    /\ calibration_mask' = [calibration_mask EXCEPT ![a] = r.fields.calibration_mask]
    /\ sensor_data' = [sensor_data EXCEPT ![a] = r.fields.sensor_data]
    /\ mass' = [mass EXCEPT ![a] = r.fields.mass]
    /\ total_mass' = [total_mass EXCEPT ![a] = r.fields.total_mass]
    /\ \E ok \in BOOLEAN :
         /\ ~r.reply => ok
         /\ sent' = IF r.reply /\ ok
                    THEN [sent EXCEPT ![a] = Append(@, SetReportModeCmd(TRUE, REPORT_CB8E))]
                    ELSE sent
         /\ recv_thread' = [recv_thread EXCEPT ![a] =
                              IF r.crashed \/ ~ok THEN "crashed" ELSE LoopTest(status[a])]

\* Line 66 raises: the exception ends the thread.
RecvRaises(a) ==
  /\ recv_thread[a] = "recv"
  /\ recv_thread' = [recv_thread EXCEPT ![a] = "crashed"]
  /\ UNCHANGED << boards, status, calib_vars, data, receivesocket, controlsocket, sent,
                  connections, disc_vars, ms_vars, cl_vars >>

\* One turn of the while loop as a single step: recv returns a frame of F
\* and the frame is handled.  (A status frame is answered with a command;
\* the log of commands is bounded by MaxSent.)
Run(a, F) ==
  /\ recv_thread[a] = "recv"
  /\ \E d \in F :
       /\ IsStatusFrame(d) => Len(sent[a]) < MaxSent
       /\ HandleFrame(a, d)
  /\ UNCHANGED << boards, status, data, receivesocket, controlsocket, connections,
                  disc_vars, ms_vars, cl_vars >>

\* The same turn in two steps, the frame kept in the local `data`:
\* line 66, recv returns a frame of F ...
Recv(a, F) ==
  /\ recv_thread[a] = "recv"
  /\ \E d \in F :
       /\ IsStatusFrame(d) => Len(sent[a]) < MaxSent
       /\ data' = [data EXCEPT ![a] = d]
  /\ recv_thread' = [recv_thread EXCEPT ![a] = "handle"]
  /\ UNCHANGED << boards, status, calib_vars, receivesocket, controlsocket, sent,
                  connections, disc_vars, ms_vars, cl_vars >>

\* ... and lines 67-90 handle it.
Handle(a) ==
  /\ recv_thread[a] = "handle"
  /\ HandleFrame(a, data[a])
  /\ UNCHANGED << boards, status, data, receivesocket, controlsocket, connections,
                  disc_vars, ms_vars, cl_vars >>

(***************************************************************************)
(* mass_server: one websocket client's coroutine.  It runs on the event    *)
(* loop of the main thread, so it is never resumed once the main thread    *)
(* has left run_forever and the atexit handler runs.                       *)
(***************************************************************************)
\* Lines 139-140: sum = 0 and the iterator over boards.values() is made.
Tick ==
  /\ ms_pc = "sleep"
  /\ ms_sum' = RatZero /\ ms_it' = 1 /\ ms_size' = Len(boards)
  /\ message' = << >>
  /\ ms_pc' = "sum"
  /\ UNCHANGED << boards, session_vars, disc_vars, listed, keys, board_masses, cl_vars >>

\* Lines 140-141, one iteration: a dict iterator raises RuntimeError when
\* the dict has changed size since the iterator was made.
SumStep ==
  /\ ms_pc = "sum"
  /\ IF Len(boards) # ms_size
     THEN ms_pc' = "aborted" /\ UNCHANGED << ms_sum, ms_it >>
     ELSE IF ms_it > ms_size
          THEN ms_pc' = "keys" /\ UNCHANGED << ms_sum, ms_it >>
          ELSE /\ ms_sum' = RatAdd(ms_sum, total_mass[boards[ms_it]])
               /\ ms_it' = ms_it + 1
               /\ UNCHANGED ms_pc
  /\ UNCHANGED << boards, session_vars, disc_vars, ms_size, listed, keys, board_masses,
                  message, cl_vars >>

\* Lines 142-144: `listed` is list(boards.keys()) as line 143 makes it,
\* `keys` the list after keys.sort().
TakeKeys ==
  /\ ms_pc = "keys"
  /\ listed' = boards
  /\ keys' = SortKeys(boards)
  /\ board_masses' = << >>
  /\ ms_it' = 1
  /\ ms_pc' = "build"
  /\ UNCHANGED << boards, session_vars, disc_vars, ms_sum, ms_size, message, cl_vars >>

\* Lines 145-146, one iteration.
BuildStep ==
  /\ ms_pc = "build"
  /\ IF ms_it > Len(keys)
     THEN ms_pc' = "send" /\ UNCHANGED << ms_it, board_masses >>
     ELSE /\ board_masses' = Append(board_masses,
                               [addr |-> keys[ms_it], mass |-> total_mass[keys[ms_it]]])
          /\ ms_it' = ms_it + 1
          /\ UNCHANGED ms_pc
  /\ UNCHANGED << boards, session_vars, disc_vars, ms_sum, ms_size, listed, keys,
                  message, cl_vars >>

\* Lines 147-153: the message goes out and the coroutine sleeps.  `listed`
\* is not part of the message: it notes the key list the message was built
\* from.
SendMessage ==
  /\ ms_pc = "send"
  /\ message' = << [total |-> ms_sum, boards |-> board_masses, listed |-> listed] >>
  /\ ms_sum' = RatZero /\ ms_it' = 0 /\ ms_size' = 0
  /\ listed' = << >> /\ keys' = << >> /\ board_masses' = << >>
  /\ ms_pc' = "sleep"
  /\ UNCHANGED << boards, session_vars, disc_vars, cl_vars >>

(***************************************************************************)
(* cleanup (atexit) and BalanceBoard.disconnect.  The handler runs when    *)
(* the main thread ends; an interrupted interpreter shutdown runs it while *)
(* the other threads are still alive.                                      *)
(***************************************************************************)
\* Line 106 is the comparison `self.status == "Disconnected"`, whose result
\* is dropped: the field keeps its value.
DisconnectStatus(s) == s

\* The session disconnect() is working on.
cl_board == boards[cl_it]

\* Lines 127-128: the iterator over boards.values() is made.  The event
\* loop is gone: the coroutine of mass_server is dropped with its locals.
CleanupStart ==
  /\ cl_pc = "idle"
  /\ cl_it' = 1 /\ cl_size' = Len(boards)
  /\ cl_pc' = "next"
  /\ ms_pc' = "stopped"
  /\ ms_sum' = RatZero /\ ms_it' = 0 /\ ms_size' = 0
  /\ listed' = << >> /\ keys' = << >> /\ board_masses' = << >> /\ message' = << >>
  /\ UNCHANGED << boards, session_vars, disc_vars >>

\* Line 128, one step of the for loop.
CleanupNext ==
  /\ cl_pc = "next"
  /\ cl_pc' = IF Len(boards) # cl_size THEN "aborted"
              ELSE IF cl_it > cl_size THEN "done" ELSE "compare"
  /\ UNCHANGED << boards, session_vars, disc_vars, ms_vars, cl_it, cl_size >>

\* Line 106.
DisconnectCompare ==
  /\ cl_pc = "compare"
  /\ status' = [status EXCEPT ![cl_board] = DisconnectStatus(@)]
  /\ cl_pc' = "join"
  /\ UNCHANGED << boards, calib_vars, recv_thread, data, receivesocket, controlsocket,
                  sent, connections, disc_vars, ms_vars, cl_it, cl_size >>

\* Line 107: join returns once the thread has ended.
DisconnectJoin ==
  /\ cl_pc = "join"
  /\ recv_thread[cl_board] \in { "finished", "crashed" }
  /\ cl_pc' = "close_recv"
  /\ UNCHANGED << boards, session_vars, disc_vars, ms_vars, cl_it, cl_size >>

\* Lines 108-111: a failing close is printed and ignored.
CloseRecv ==
  /\ cl_pc = "close_recv"
  /\ \E ok \in BOOLEAN :
       receivesocket' = IF ok THEN [receivesocket EXCEPT ![cl_board] = "closed"]
                        ELSE receivesocket
  /\ cl_pc' = "close_ctrl"
  /\ UNCHANGED << boards, status, calib_vars, recv_thread, data, controlsocket, sent,
                  connections, disc_vars, ms_vars, cl_it, cl_size >>

\* Lines 112-116.
CloseCtrl ==
  /\ cl_pc = "close_ctrl"
  /\ \E ok \in BOOLEAN :
       controlsocket' = IF ok THEN [controlsocket EXCEPT ![cl_board] = "closed"]
                        ELSE controlsocket
  /\ cl_it' = cl_it + 1
  /\ cl_pc' = "next"
  /\ UNCHANGED << boards, status, calib_vars, recv_thread, data, receivesocket, sent,
                  connections, disc_vars, ms_vars, cl_size >>

(***************************************************************************)
(* Specifications                                                          *)
(***************************************************************************)
\* BalanceBoard.__init__ as discovery runs it.
Construct ==
  \/ InitObject \/ ConnectRecv \/ ConnectCtrl \/ SetConnected
  \/ StartThread \/ SendRead \/ SendReportMode

MassServer == Tick \/ SumStep \/ TakeKeys \/ BuildStep \/ SendMessage

Cleanup ==
  \/ CleanupStart \/ CleanupNext \/ DisconnectCompare \/ DisconnectJoin
  \/ CloseRecv \/ CloseCtrl

\* The whole program: discovery, the receive threads, the broadcast loop
\* and the shutdown handler, interleaved.
Next ==
  \/ Discover(PollResults) \/ Construct \/ Insert
  \/ \E a \in Addresses : RecvRaises(a) \/ Run(a, Frames)
  \/ MassServer
  \/ Cleanup

Spec == Init /\ [][Next]_vars

\* The whole program with one board in range, and with the scheduling the
\* interpreter gives: the discovery thread and the event loop's coroutine
\* are not starved.  Nothing is assumed of the device (frames may stop
\* coming) or of process exit.
OneBoardNext ==
  \/ Discover(PollOne) \/ Construct \/ Insert
  \/ \E a \in Addresses : RecvRaises(a) \/ Run(a, Frames)
  \/ MassServer
  \/ Cleanup

FairSpec ==
  /\ Init /\ [][OneBoardNext]_vars
  /\ WF_vars(Discover(PollOne) \/ Construct \/ Insert)
  /\ WF_vars(MassServer)

\* One board in range and its session, frame by frame, with the wider
\* choice of frames.
SessionNext ==
  \/ Discover(PollOne) \/ Construct \/ Insert
  \/ \E a \in Addresses : RecvRaises(a) \/ Recv(a, SessionFrames) \/ Handle(a)

SessionSpec == Init /\ [][SessionNext]_vars

\* The largest value of a 16-bit unsigned field (struct format ">H").
MaxPoint == 65535

\* Calibration points, from which the triples zero < half < full are drawn,
\* and the readings reports carry: the ends of the 16-bit range, the values
\* at, just below and just above calibration points, and values between.
CalValues == { 0, 1, 100, 200, 300, 65534, MaxPoint }
CalTriples == { t \in CalValues \X CalValues \X CalValues : t[1] < t[2] /\ t[2] < t[3] }
CalcPoints ==
  { 0, 1, 2, 99, 100, 101, 150, 199, 200, 201, 250, 299, 300, 301,
    65533, 65534, MaxPoint }

\* The calibration block with the same three points on every axis.
CalBlock(t) == Rep4(t[1]) \o Rep4(t[2]) \o Rep4(t[3])

CalcFrames ==
  { ReportFrame(<< p, IF p = 0 THEN 0 ELSE p - 1, p, MaxPoint - p >>) : p \in CalcPoints }

\* A session of address 1 as its construction and the two chunks of the
\* calibration block leave it: connected, registered, fully calibrated with
\* the points of one triple, no report handled yet.
CalcInit ==
  \E t \in CalTriples :
    /\ boards = << 1 >>
    /\ status = [a \in Addresses |-> IF a = 1 THEN "Connected" ELSE "NoObject"]
    /\ calibration_data =
         [a \in Addresses |-> IF a = 1 THEN CalBlock(t) ELSE InitCalibrationData]
    /\ calibration_mask =
         [a \in Addresses |-> IF a = 1 THEN [k \in 1..CALIBRATION_LENGTH |-> 0]
                                       ELSE InitCalibrationMask]
    /\ sensor_data = [a \in Addresses |-> InitSensorData]
    /\ mass = [a \in Addresses |-> InitMass]
    /\ total_mass = [a \in Addresses |-> RatZero]
    /\ recv_thread = [a \in Addresses |-> IF a = 1 THEN "recv" ELSE "none"]
    /\ data = [a \in Addresses |->
                IF a = 1 THEN ReadFrame(start_LSB + 16, 8, Rep4(t[3]) \o Rep4(0))
                ELSE << >>]
    /\ receivesocket = [a \in Addresses |-> IF a = 1 THEN "connected" ELSE "none"]
    /\ controlsocket = [a \in Addresses |-> IF a = 1 THEN "connected" ELSE "none"]
    /\ sent = [a \in Addresses |->
                IF a = 1 THEN << ReadCmd(CALIBRATION_ADDR, CALIBRATION_LENGTH),
                                 SetReportModeCmd(TRUE, REPORT_CB8E) >>
                ELSE << >>]
    /\ connections = [a \in Addresses |-> IF a = 1 THEN 1 ELSE 0]
    /\ disc_pc = "poll"
    /\ devices = << >>
    /\ ms_pc = "sleep"
    /\ ms_sum = RatZero
    /\ ms_it = 0
    /\ ms_size = 0
    /\ listed = << >>
    /\ keys = << >>
    /\ board_masses = << >>
    /\ message = << >>
    /\ cl_pc = "idle"
    /\ cl_it = 0
    /\ cl_size = 0

\* The receive loop of that session, fed with reports.
CalcNext == Recv(1, CalcFrames) \/ Handle(1)

CalcSpec == CalcInit /\ [][CalcNext]_vars

(***************************************************************************)
(* Properties                                                              *)
(***************************************************************************)
Uncalibrated(a) == AnyMask(calibration_mask[a])
PartlyCalibrated(a) ==
  Uncalibrated(a) /\ \E k \in 1..CALIBRATION_LENGTH : calibration_mask[a][k] = 0

\* C1: while an entry of calibration_mask is still 1, no step changes mass
\* or total_mass of the session, the handling of a report frame included:
\* the mass is computed only in states whose mask is all 0.
C1_NoMassBeforeCalibrated ==
  [][\A a \in Addresses :
       Uncalibrated(a) => mass'[a] = mass[a] /\ total_mass'[a] = total_mass[a]]_vars

\* A report frame has been handled by a session whose calibration block is
\* half there: the reading is stored, the mass is still the initial one.
C1_Witness ==
  \E a \in Addresses :
    /\ PartlyCalibrated(a)
    /\ recv_thread[a] = "recv"
    /\ data[a] = ReportFrame(<< 150, 150, 150, 150 >>)
    /\ sensor_data[a] = << 150, 150, 150, 150 >>
    /\ mass[a] = InitMass /\ total_mass[a] = RatZero

\* C2: when recv raises, or returns the empty frame of a closed channel,
\* the receive loop ends and the session's status becomes Disconnected,
\* every other session's status staying as it was.
C2_ReadFailureDisconnects ==
  [][\A a \in Addresses :
       (RecvRaises(a) \/ Run(a, { EmptyFrame }))
         => /\ recv_thread'[a] \in { "crashed", "finished" }
            /\ status'[a] = "Disconnected"
            /\ \A b \in Addresses \ { a } : status'[b] = status[b]]_vars

\* C3: once disconnect() has passed line 106 for a session, the status of
\* that session is Disconnected.
C3_DisconnectSetsStatus ==
  cl_pc \in { "join", "close_recv", "close_ctrl" } => status[cl_board] = "Disconnected"

\* C4: shutdown terminates without the device failing: while disconnect()
\* waits in join for a receive loop that is still running, the loop has been
\* told to stop (its next test of the while condition ends it); and no
\* socket of a session is closed while its receive loop runs.
C4_JoinedLoopStops ==
  /\ \A a \in Addresses :
       (receivesocket[a] = "closed" \/ controlsocket[a] = "closed")
         => recv_thread[a] \in { "finished", "crashed" }
  /\ (cl_pc = "join" /\ recv_thread[cl_board] = "recv")
       => LoopTest(status[cl_board]) = "finished"

ConstructPcs ==
  { "init", "connect_recv", "connect_ctrl", "set_status", "start", "read",
    "report_mode", "insert" }

\* C5: however often an address is offered, within one poll or across
\* polls, the device of an address is connected to at most once, and no
\* session is constructed for an address that is in the registry; the
\* registry holds every address once.
C5_OneSessionPerAddress ==
  /\ \A a \in Addresses : connections[a] <= 1
  /\ disc_pc \in ConstructPcs \ { "insert" } => ~InBoards(dev[1])
  /\ \A j, k \in 1..Len(boards) : boards[j] = boards[k] => j = k

\* The session of address 1 is connected and about to be inserted, and the
\* same poll offers address 1 once more.
C5_Witness ==
  /\ disc_pc = "insert"
  /\ devices = << << 1, BOARD_NAME >>, << 1, BOARD_NAME >> >>
  /\ connections[1] = 1
  /\ status[1] = "Connected"

\* C6: a failure to create or connect a socket in __init__ leaves the
\* registry without a session for the address and the discovery loop
\* running, so that a later poll tries the address again.
C6_DiscoverySurvivesConnectFailure ==
  [][(disc_pc \in { "init", "connect_recv", "connect_ctrl" })
       => (disc_pc' \in (ConstructPcs \cup { "poll" }))]_vars

Masses(bs) == [k \in 1..Len(bs) |-> bs[k].mass]
Addrs(bs) == [k \in 1..Len(bs) |-> bs[k].addr]

\* C7: the total of every message is the sum of the mass fields of its
\* boards list, whatever the receive loops and discovery do during the tick.
C7_TotalIsSumOfBoards ==
  message # << >> => message[1].total = RatSum(Masses(message[1].boards))

\* The second half of C7: no tick is aborted by an insertion into the
\* registry.
C7_TickNeverAborted == ms_pc # "aborted"

\* C8: the boards list of every message has one entry per address of the
\* key list the tick took from the registry, in strictly ascending order of
\* address.
C8_BoardsSortedAndComplete ==
  message # << >> =>
    LET bs == Addrs(message[1].boards)
        ls == message[1].listed
    IN  /\ Len(bs) = Len(ls)
        /\ { bs[k] : k \in 1..Len(bs) } = { ls[k] : k \in 1..Len(ls) }
        /\ \A j, k \in 1..Len(bs) : j < k => bs[j] < bs[k]

\* A message for two boards that were discovered in descending order of
\* address.
C8_Witness ==
  /\ message # << >>
  /\ message[1].listed = << 2, 1 >>
  /\ Addrs(message[1].boards) = << 1, 2 >>

\* The frames whose second byte is none of the four packet types run() knows.
IsUnknownFrame(d) ==
  Len(d) >= 2 /\ At(d, 1) \notin { STATUS, REPORT_CB, READ_RTN, REPORT_CB8E }

\* C9: handling a frame of unknown packet type changes no field of the
\* session and leaves the receive loop running, blocked in the next recv.
C9_UnknownFrameIgnored ==
  [][\A a \in Addresses :
       (recv_thread[a] = "handle" /\ recv_thread'[a] # "handle" /\ IsUnknownFrame(data[a]))
         => /\ recv_thread'[a] = "recv"
            /\ status'[a] = status[a]
            /\ calibration_data'[a] = calibration_data[a]
            /\ calibration_mask'[a] = calibration_mask[a]
            /\ sensor_data'[a] = sensor_data[a]
            /\ mass'[a] = mass[a]
            /\ total_mass'[a] = total_mass[a]]_vars

\* A calibrated session with a computed mass has handled an unknown frame
\* and waits for the next one.
C9_Witness ==
  \E a \in Addresses :
    /\ data[a] = UnknownFrame
    /\ recv_thread[a] = "recv"
    /\ ~Uncalibrated(a)
    /\ total_mass[a] # RatZero

IsChunkFrame(d) == Len(d) >= 2 /\ At(d, 1) = READ_RTN

\* C10: in every calibration state a session waits for a frame in, for
\* every read reply, applying the reply twice gives the calibration_data and
\* calibration_mask that applying it once gives.
C10_ChunkIdempotent ==
  \A a \in { b \in Addresses : recv_thread[b] = "recv" } :
   \A d \in { f \in SessionFrames : IsChunkFrame(f) } :
    \A once \in { ApplyChunk(calibration_data[a], calibration_mask[a], d) } :
      \A twice \in { ApplyChunk(once.data, once.mask, d) } :
        twice.data = once.data /\ twice.mask = once.mask

\* The session is about to handle the chunk of the first 16 bytes a second
\* time: the bytes it carries are in place, over other bytes received
\* before, and the rest of the block is still missing.
C10_Witness ==
  \E a \in Addresses :
    /\ recv_thread[a] = "handle"
    /\ data[a] = ReadFrame(start_LSB, 16, PayZeroHalf)
    /\ PartlyCalibrated(a)
    /\ SubSeq(calibration_data[a], 1, 16) = PayZeroHalf
    /\ calibration_mask[a][1] = 0

IsReportFrame(d) == Len(d) >= 12 /\ At(d, 1) = REPORT_CB8E

\* The session a has just handled the frame it had received: the step from
\* "handle" of its receive thread.
Handled(a) == recv_thread[a] = "handle" /\ recv_thread'[a] # "handle"

\* C11: a degenerate calibration never ends the receive loop: for every
\* fully calibrated session and every report frame, handling the frame
\* leaves the loop running, blocked in the next recv, with a mass written
\* for every axis.
C11_DegenerateNeverCrashes ==
  [][\A a \in Addresses :
       (Handled(a) /\ IsReportFrame(data[a]) /\ ~Uncalibrated(a))
         => recv_thread'[a] = "recv"]_vars

\* The calibration points of axis i of session a.
Triple(a, i) ==
  << CalPoint(calibration_data[a], i * 2), CalPoint(calibration_data[a], i * 2 + 8),
     CalPoint(calibration_data[a], i * 2 + 16) >>

Ordered(t) == t[1] < t[2] /\ t[2] < t[3]

\* C12: for calibration points zero < half < full, the mass of an axis is
\* non-decreasing in the reading over the whole 16-bit range (from each
\* reading to the next), 0 for every reading up to zero and 17 at half; and
\* the mass a report leaves in the session is that value.
C12_MassMonotone ==
  \A a \in { b \in Addresses : recv_thread[b] = "recv" /\ ~Uncalibrated(b) } :
    /\ \A t \in { Triple(a, i) : i \in 0..3 } :
         (Ordered(t) /\ IsChunkFrame(data[a])) =>
           /\ \A p \in 0..(MaxPoint - 1) :
                RatLe(MassAxis(p, t[1], t[2], t[3]), MassAxis(p + 1, t[1], t[2], t[3]))
           /\ \A p \in 0..t[1] : MassAxis(p, t[1], t[2], t[3]) = RatZero
           /\ MassAxis(t[2], t[1], t[2], t[3]) = << 17, 1 >>
    /\ IsReportFrame(data[a]) =>
         \A i \in 0..3 :
           \A t \in { Triple(a, i) } : \A p \in { sensor_data[a][i + 1] } :
             Ordered(t) =>
               /\ mass[a][i + 1] = MassAxis(p, t[1], t[2], t[3])
               /\ p <= t[1] => mass[a][i + 1] = RatZero
               /\ p = t[2] => mass[a][i + 1] = << 17, 1 >>

\* A report has been handled whose reading is half on axis 0, just below
\* half on axis 1: 17 on the one, less than 17 and more than 0 on the other.
C12_Witness ==
  \E a \in Addresses :
    /\ recv_thread[a] = "recv" /\ IsReportFrame(data[a]) /\ ~Uncalibrated(a)
    /\ Ordered(Triple(a, 0))
    /\ sensor_data[a][1] = Triple(a, 0)[2]
    /\ sensor_data[a][2] = Triple(a, 1)[2] - 1
    /\ sensor_data[a][2] > Triple(a, 1)[1]
    /\ mass[a][1] = << 17, 1 >>
    /\ mass[a][2] # RatZero /\ RatLe(mass[a][2], << 17, 1 >>) /\ mass[a][2] # << 17, 1 >>

\* The address and the length a read reply reports (bytes 5..6, and the high
\* nibble of byte 4 plus 1).
ChunkAddr(d) == UnpackH(Slice(d, 5, 7))
ChunkLength(d) == (At(d, 4) \div 16) + 1

WhollyInside(d) ==
  /\ start_LSB <= ChunkAddr(d)
  /\ ChunkAddr(d) + ChunkLength(d) <= start_LSB + CALIBRATION_LENGTH

\* C13: a read reply whose range [addr, addr + length) does not lie wholly
\* inside the calibration block is ignored: handling it leaves
\* calibration_data and calibration_mask as they were and the receive loop
\* running, blocked in the next recv.
C13_OutsideChunkIgnored ==
  [][\A a \in Addresses :
       (Handled(a) /\ IsChunkFrame(data[a]) /\ Len(data[a]) >= 7 /\ ~WhollyInside(data[a]))
         => /\ calibration_data'[a] = calibration_data[a]
            /\ calibration_mask'[a] = calibration_mask[a]
            /\ recv_thread'[a] = "recv"]_vars

\* C14: whenever the receive loop of a session is not in the middle of
\* handling a frame, from construction on and after any sequence of frames,
\* total_mass is mass[0] + mass[1] + mass[2] + mass[3].
C14_TotalIsSumOfAxes ==
  \A a \in Addresses :
    recv_thread[a] # "handle" => total_mass[a] = RatSum(mass[a])

\* What does hold: the sum is right as long as the receive loop is alive.
C14_TotalIsSumWhileLoopRuns ==
  \A a \in Addresses :
    recv_thread[a] \in { "none", "created", "recv", "finished" }
      => total_mass[a] = RatSum(mass[a])

\* C15: handling a status frame sends at most one command, the
\* set-report-mode command with continuous = true and type REPORT_CB8E, and
\* the loop goes on to read the next frame only when that command has been
\* sent; handling a frame of any other type sends nothing.
C15_StatusFrameAnswered ==
  [][\A a \in Addresses :
       Handled(a) =>
         IF IsStatusFrame(data[a])
         THEN /\ \/ sent'[a] = sent[a]
                 \/ sent'[a] = Append(sent[a], << "SET_REPORT_MODE", 4, REPORT_CB8E >>)
              /\ recv_thread'[a] = "recv" =>
                   sent'[a] = Append(sent[a], << "SET_REPORT_MODE", 4, REPORT_CB8E >>)
              /\ Len(data[a]) >= 5 =>
                   \/ recv_thread'[a] = "recv"
                   \/ recv_thread'[a] = "crashed" /\ sent'[a] = sent[a]
         ELSE sent'[a] = sent[a]]_vars

\* The session has answered a status frame after the two commands of its
\* construction, and waits for the next frame.
C15_Witness ==
  \E a \in Addresses :
    /\ data[a] = StatusFrame
    /\ recv_thread[a] = "recv"
    /\ sent[a] = << ReadCmd(CALIBRATION_ADDR, CALIBRATION_LENGTH),
                    SetReportModeCmd(TRUE, REPORT_CB8E),
                    SetReportModeCmd(TRUE, REPORT_CB8E) >>

\* Both sub-channels of the session of address a have been opened.
ChannelsOpen(a) ==
  /\ receivesocket[a] \in { "connected", "closed" }
  /\ controlsocket[a] \in { "connected", "closed" }

\* The receive thread of the session has been started.
Started(a) == recv_thread[a] \notin { "none", "created" }

C17_DisconnectedIsTerminal ==
  [][\A a \in Addresses :
       status[a] = "Disconnected" => status'[a] = "Disconnected"]_vars

\* The receive loop of the session of address a has ended.
LoopEnded(a) == recv_thread[a] \in { "finished", "crashed" }

\* C18: a registered session whose receive loop has ended is eventually
\* removed from the registry.  (Stated for the runs in which discovery and
\* the broadcast loop stay alive and shutdown never begins: the runs in
\* which the program goes on polling and broadcasting.)
C18_EndedSessionRemoved ==
  \A a \in Addresses :
    (InBoards(a) /\ LoopEnded(a))
      ~> (~InBoards(a) \/ disc_pc = "crashed" \/ ms_pc = "aborted" \/ cl_pc # "idle")

\* The five fields of the session of address a that run() and
\* calculate_mass work on.
SessionData(a) ==
  << calibration_data[a], calibration_mask[a], sensor_data[a], mass[a], total_mass[a] >>

\* C19: once the object of a session exists, every step that changes its
\* calibration_data, calibration_mask, sensor_data, mass or total_mass is a
\* turn of that session's own receive loop: the steps of discovery, of
\* mass_server, of cleanup and disconnect, and of the other sessions' loops
\* leave them as they are.
C19_OnlyOwnLoopWrites ==
  [][\A a \in Addresses :
       (status[a] # "NoObject" /\ SessionData(a)' # SessionData(a))
         => (recv_thread[a] = "recv" /\ Run(a, Frames))]_vars

\* A message has gone out for two registered sessions: the one of address 1
\* has computed a mass, the one of address 2 has half of its calibration
\* block and no mass yet.
C19_Witness ==
  /\ message # << >>
  /\ Len(message[1].boards) = 2
  /\ ~Uncalibrated(1) /\ total_mass[1] # RatZero
  /\ PartlyCalibrated(2) /\ mass[2] = InitMass /\ total_mass[2] = RatZero

\* C20: no step sets an entry of calibration_mask back from 0 to 1, so a
\* fully calibrated session stays fully calibrated; and every report frame
\* such a session handles is stored and run through calculate_mass.
C20_CalibrationMonotone ==
  [][\A a \in Addresses :
       /\ \A k \in 1..CALIBRATION_LENGTH :
            calibration_mask[a][k] = 0 => calibration_mask'[a][k] = 0
       /\ (Handled(a) /\ IsReportFrame(data[a]) /\ ~Uncalibrated(a)) =>
            \E r \in { calculate_mass(UnpackHHHH(Slice(data[a], 4, 12)),
                                       calibration_data[a], mass[a], total_mass[a]) } :
              /\ sensor_data'[a] = UnpackHHHH(Slice(data[a], 4, 12))
              /\ mass'[a] = r.mass
              /\ total_mass'[a] = r.total_mass]_vars

\* A session that was fully calibrated and had computed a mass has since
\* handled another chunk of the first 16 bytes: it is still fully
\* calibrated.
C20_Witness ==
  \E a \in Addresses :
    /\ recv_thread[a] = "recv"
    /\ data[a] = ReadFrame(start_LSB, 16, PayZeroHalfAlt)
    /\ ~Uncalibrated(a)
    /\ total_mass[a] # RatZero

=============================================================================
